---- MODULE Spec2Model ----
(***************************************************************************)
(* Model of main.py of gmail_to_telegram: the polling loop run_bot, the    *)
(* fan-out send_to_telegram and the normalizer parse_email.                *)
(*                                                                         *)
(* Strings are sequences of one-character strings, so that len, slicing,   *)
(* strip and concatenation are computed as Python computes them.           *)
(***************************************************************************)
EXTENDS Integers, Sequences, FiniteSets, TLC

-----------------------------------------------------------------------------
(* Bounds of the model *)

\* messages that ever arrive in the inbox
MaxMsgs == 2
\* failures the environment (IMAP server, Telegram, decoder) injects in a run
MaxFaults == 2
-----------------------------------------------------------------------------
(* String helpers *)

Whitespace == {" ", "\n", "\t"}

RECURSIVE LStrip(_)
LStrip(s) ==
    IF s = <<>> THEN <<>>
    ELSE IF Head(s) \in Whitespace THEN LStrip(Tail(s)) ELSE s

RECURSIVE RStrip(_)
RStrip(s) ==
    IF s = <<>> THEN <<>>
    ELSE IF s[Len(s)] \in Whitespace THEN RStrip(SubSeq(s, 1, Len(s) - 1)) ELSE s

\* str.strip()
Strip(s) == RStrip(LStrip(s))

\* reversed(list)
Reversed(s) == [i \in 1..Len(s) |-> s[Len(s) + 1 - i]]

-----------------------------------------------------------------------------
(* Configuration *)

\* TELEGRAM_CHAT_IDS = os.environ.get('TELEGRAM_CHAT_IDS', '').split(','):
\* never an empty list, and its entries keep the spaces around the commas
ChatIdLists ==
    { << <<>> >>,                            \* ""       (variable unset)
      << <<"7">> >>,                         \* "7"
      << <<"7">>, <<" ", "8">> >>,           \* "7, 8"
      << <<"7">>, <<>> >>,                   \* "7,"     (stray comma)
      << <<"7">>, <<" ">>, <<"8">> >> }      \* "7, ,8"

Msgs == 1..MaxMsgs

-----------------------------------------------------------------------------
VARIABLES
    pc,                 \* position of run_bot
    mail,               \* TRUE: an IMAP session object, FALSE: None
    after,              \* where control goes once the finally block is done
    email_id_list,      \* result of the UNSEEN search of this cycle
    todo,               \* rest of reversed(email_id_list), current id first
    ci,                 \* index into TELEGRAM_CHAT_IDS inside send_to_telegram
    TELEGRAM_CHAT_IDS,  \* the configured recipient list
    inbox,              \* number of messages in the inbox (ids 1..inbox)
    seen,               \* the server's \Seen flag per message
    faults,             \* failures injected so far
    log,                \* calls issued since the last connect attempt
    sent,               \* sent[m][i]: successful sends of m to entry i
    stored,             \* stored[m]: a store for m returned OK
    clean,              \* clean[m]: no operation on m has failed
    \* parse_email
    npc,                \* position of parse_email
    msg,                \* the message parsed from msg_data
    subject,
    sender,
    part,               \* index of the part the walk is at
    body_plain,
    body_html,
    final_body,
    message_text,
    returned            \* the value parse_email returns

pvars == << pc, mail, after, email_id_list, todo, ci, TELEGRAM_CHAT_IDS,
            inbox, seen, faults, log, sent, stored, clean >>

nvars == << npc, msg, subject, sender, part, body_plain, body_html,
            final_body, message_text, returned >>

vars == << pvars, nvars >>

email_id == Head(todo)

\* sequence of the elements of a set of numbers, ascending
RECURSIVE Ascending(_)
Ascending(S) ==
    IF S = {} THEN <<>>
    ELSE LET m == CHOOSE x \in S : \A y \in S : x <= y
         IN  <<m>> \o Ascending(S \ {m})

\* a search for 'ALL' instead of 'UNSEEN'
UnseenOrSeen == Ascending(1..inbox)

\* the server's answer to SEARCH UNSEEN: sequence numbers, ascending
Unseen == Ascending({ m \in 1..inbox : ~seen[m] })

MayFail == faults < MaxFaults

PollerInit ==
    /\ pc = "connect"
    /\ mail = FALSE
    /\ after = "sleep"
    /\ email_id_list = <<>>
    /\ todo = <<>>
    /\ ci = 1
    /\ TELEGRAM_CHAT_IDS \in ChatIdLists
    /\ inbox = 0
    /\ seen = [m \in Msgs |-> FALSE]
    /\ faults = 0
    /\ log = <<>>
    /\ sent = [m \in Msgs |-> [i \in 1..Len(TELEGRAM_CHAT_IDS) |-> 0]]
    /\ stored = [m \in Msgs |-> FALSE]
    /\ clean = [m \in Msgs |-> TRUE]

\* no call of parse_email is being followed
NormIdle ==
    /\ npc = "idle"
    /\ msg = << >>
    /\ subject = << >>
    /\ sender = << >>
    /\ part = 0
    /\ body_plain = << >>
    /\ body_html = << >>
    /\ final_body = << >>
    /\ message_text = << >>
    /\ returned = << >>

Init == PollerInit /\ NormIdle

-----------------------------------------------------------------------------
(* The polling loop *)

Ev(op, id, to, st) == [op |-> op, id |-> id, to |-> to, st |-> st]

\* outcomes of an imaplib command: a status returned, or an exception raised
\* (ABORT: imaplib.IMAP4.abort, ERROR: any other exception)
ImapOutcomes == {"OK", "NO", "ERROR", "ABORT"}

Cost(st) == IF st = "OK" THEN 0 ELSE 1

Allowed(st) == st = "OK" \/ MayFail

Spoil(id) == [clean EXCEPT ![id] = FALSE]

\* "if status == 'OK':" after mail.fetch; an exception never gets here
FetchAcceptedAlways(st) == st \in {"OK", "NO"}

FetchAccepted(st) == st = "OK"

\* "for email_id in reversed(email_id_list)": the order of processing
ProcessingOrderAsListed(ids) == ids

ProcessingOrder(ids) == Reversed(ids)

\* the loop left without the finally block: no logout after the batch
NextEmailNoFinally ==
    /\ todo' = Tail(todo)
    /\ pc' = IF Tail(todo) = <<>> THEN "sleep" ELSE "fetch"
    /\ after' = "sleep"

\* end of one pass of "for email_id in reversed(email_id_list)"
NextEmail ==
    /\ todo' = Tail(todo)
    /\ pc' = IF Tail(todo) = <<>> THEN "logout" ELSE "fetch"
    /\ after' = "sleep"

\* mail = None; mail = connect_to_gmail(); if not mail: ...
Connect ==
    /\ pc = "connect"
    /\ \E st \in {"OK", "ERROR"} :
        /\ Allowed(st)
        /\ faults' = faults + Cost(st)
        /\ log' = << Ev("connect", 0, 0, st) >>
        /\ mail' = (st = "OK")
        /\ pc' = IF st = "OK" THEN "search" ELSE "retry_sleep"
    /\ UNCHANGED << after, email_id_list, todo, ci, TELEGRAM_CHAT_IDS, inbox,
                    seen, sent, stored, clean >>
    /\ UNCHANGED nvars

\* the sleep after a failed connection without its "continue": the loop body
\* goes on to its end and sleeps again
RetrySleepNoContinue ==
    /\ pc = "retry_sleep"
    /\ log' = Append(log, Ev("sleep", 0, 0, "OK"))
    /\ pc' = "sleep"
    /\ UNCHANGED << mail, after, email_id_list, todo, ci, TELEGRAM_CHAT_IDS,
                    inbox, seen, faults, sent, stored, clean >>
    /\ UNCHANGED nvars

\* time.sleep(CHECK_INTERVAL_SECONDS); continue   (connection failed)
RetrySleep ==
    /\ pc = "retry_sleep"
    /\ log' = Append(log, Ev("sleep", 0, 0, "OK"))
    /\ pc' = "connect"
    /\ UNCHANGED << mail, after, email_id_list, todo, ci, TELEGRAM_CHAT_IDS,
                    inbox, seen, faults, sent, stored, clean >>
    /\ UNCHANGED nvars

\* status, email_ids_raw = mail.search(None, 'UNSEEN') and the branches on it
Search ==
    /\ pc = "search"
    /\ \E st \in ImapOutcomes :
        /\ Allowed(st)
        /\ faults' = faults + Cost(st)
        /\ log' = Append(log, Ev("search", 0, 0, st))
        /\ IF st = "OK"
           THEN /\ email_id_list' = Unseen
                /\ todo' = ProcessingOrder(Unseen)
                /\ pc' = IF Unseen = <<>> THEN "logout" ELSE "fetch"
                /\ after' = "sleep"
           ELSE /\ UNCHANGED << email_id_list, todo >>
                /\ pc' = "logout"
                \* a non-OK status leaves by "continue", an exception by the
                \* except clauses of the outer try
                /\ after' = IF st = "NO" THEN "continue" ELSE "sleep"
    /\ UNCHANGED << mail, ci, TELEGRAM_CHAT_IDS, inbox, seen, sent,
                    stored, clean >>
    /\ UNCHANGED nvars

\* a failed fetch that leaves the for loop instead of going on with the next
\* message
FetchAbortsBatch ==
    /\ pc = "fetch"
    /\ \E st \in ImapOutcomes :
        /\ Allowed(st)
        /\ faults' = faults + Cost(st)
        /\ log' = Append(log, Ev("fetch", email_id, 0, st))
        /\ clean' = IF st = "OK" THEN clean ELSE Spoil(email_id)
        /\ IF FetchAccepted(st)
           THEN /\ pc' = "parse"
                /\ \E implicit \in BOOLEAN :
                       seen' = [seen EXCEPT ![email_id] = @ \/ implicit]
                /\ UNCHANGED << todo, after >>
           ELSE /\ pc' = "logout"
                /\ after' = "sleep"
                /\ UNCHANGED todo
                /\ UNCHANGED seen
    /\ UNCHANGED << mail, email_id_list, ci, TELEGRAM_CHAT_IDS, inbox, sent,
                    stored >>
    /\ UNCHANGED nvars

\* status, msg_data = mail.fetch(email_id, '(RFC822)')
\* A fetch of RFC822 in a mailbox selected read-write may set \Seen on the
\* server by itself; whether it does is the server's choice.
Fetch ==
    /\ pc = "fetch"
    /\ \E st \in ImapOutcomes :
        /\ Allowed(st)
        /\ faults' = faults + Cost(st)
        /\ log' = Append(log, Ev("fetch", email_id, 0, st))
        /\ clean' = IF st = "OK" THEN clean ELSE Spoil(email_id)
        /\ IF FetchAccepted(st)
           THEN /\ pc' = "parse"
                /\ \E implicit \in BOOLEAN :
                       seen' = [seen EXCEPT ![email_id] = @ \/ implicit]
                /\ UNCHANGED << todo, after >>
           ELSE /\ NextEmail
                /\ UNCHANGED seen
    /\ UNCHANGED << mail, email_id_list, ci, TELEGRAM_CHAT_IDS, inbox, sent,
                    stored >>
    /\ UNCHANGED nvars

\* message_to_send = parse_email(msg_data)
Parse ==
    /\ pc = "parse"
    /\ \E st \in {"OK", "ERROR"} :
        /\ Allowed(st)
        /\ faults' = faults + Cost(st)
        /\ log' = Append(log, Ev("parse", email_id, 0, st))
        /\ IF st = "OK"
           THEN /\ pc' = "send"
                /\ ci' = 1
                /\ UNCHANGED << todo, after, clean >>
           ELSE /\ NextEmail
                /\ clean' = Spoil(email_id)
                /\ UNCHANGED ci
    /\ UNCHANGED << mail, email_id_list, TELEGRAM_CHAT_IDS, inbox, seen, sent, stored >>
    /\ UNCHANGED nvars

\* "if not chat_id: continue"
Skipped(chat_id) == chat_id = <<>>

\* what one pass of "for chat_id in TELEGRAM_CHAT_IDS" appends to the log,
\* followed by the return of send_to_telegram after the last entry
SendEvents(st) ==
    (IF Skipped(TELEGRAM_CHAT_IDS[ci]) THEN <<>>
     ELSE << Ev("send", email_id, ci, st) >>)
    \o (IF ci = Len(TELEGRAM_CHAT_IDS)
        THEN << Ev("sent_all", email_id, 0, "OK") >> ELSE <<>>)

\* send_to_telegram without the try/except around bot.send_message: a
\* failed send leaves the function and lands in the except clause of run_bot
SendUnguarded ==
    /\ pc = "send"
    /\ \E st \in {"OK", "ERROR"} :
        /\ Allowed(st)
        /\ Skipped(TELEGRAM_CHAT_IDS[ci]) => st = "OK"
        /\ faults' = faults + Cost(st)
        /\ log' = log \o (IF st = "OK" THEN SendEvents(st)
                         ELSE << Ev("send", email_id, ci, st) >>)
        /\ sent' = IF Skipped(TELEGRAM_CHAT_IDS[ci]) \/ st # "OK" THEN sent
                   ELSE [sent EXCEPT ![email_id][ci] = @ + 1]
        /\ clean' = IF st = "OK" THEN clean ELSE Spoil(email_id)
        /\ IF st # "OK"
           THEN NextEmail /\ ci' = 1
           ELSE /\ IF ci = Len(TELEGRAM_CHAT_IDS)
                   THEN pc' = "store" /\ ci' = 1
                   ELSE pc' = "send" /\ ci' = ci + 1
                /\ UNCHANGED << after, todo >>
    /\ UNCHANGED << mail, email_id_list, TELEGRAM_CHAT_IDS, inbox, seen, stored >>
    /\ UNCHANGED nvars

\* one pass of the loop of send_to_telegram(message_to_send)
Send ==
    /\ pc = "send"
    /\ \E st \in {"OK", "ERROR"} :
        /\ Allowed(st)
        /\ Skipped(TELEGRAM_CHAT_IDS[ci]) => st = "OK"
        /\ faults' = faults + Cost(st)
        /\ log' = log \o SendEvents(st)
        /\ sent' = IF Skipped(TELEGRAM_CHAT_IDS[ci]) \/ st # "OK" THEN sent
                   ELSE [sent EXCEPT ![email_id][ci] = @ + 1]
        /\ clean' = IF st = "OK" THEN clean ELSE Spoil(email_id)
    /\ IF ci = Len(TELEGRAM_CHAT_IDS)
       THEN pc' = "store" /\ ci' = 1
       ELSE pc' = "send" /\ ci' = ci + 1
    /\ UNCHANGED << mail, after, email_id_list, todo, TELEGRAM_CHAT_IDS,
                    inbox, seen, stored >>
    /\ UNCHANGED nvars

\* the store made only "if at least one send succeeded": a dispatch whose
\* every send failed leaves the message unread
StoreIfDelivered ==
    /\ pc = "store"
    /\ IF \E k \in 1..Len(log) : /\ log[k].op = "send"
                                 /\ log[k].id = email_id
                                 /\ log[k].st = "OK"
       THEN \E st \in ImapOutcomes :
              /\ Allowed(st)
              /\ faults' = faults + Cost(st)
              /\ log' = Append(log, Ev("store", email_id, 0, st))
              /\ seen' = IF st = "OK" THEN [seen EXCEPT ![email_id] = TRUE]
                         ELSE seen
              /\ stored' = IF st = "OK" THEN [stored EXCEPT ![email_id] = TRUE]
                           ELSE stored
              /\ clean' = IF st = "OK" THEN clean ELSE Spoil(email_id)
       ELSE UNCHANGED << faults, log, seen, stored, clean >>
    /\ NextEmail
    /\ UNCHANGED << mail, email_id_list, ci, TELEGRAM_CHAT_IDS, inbox, sent>>
    /\ UNCHANGED nvars

\* mail.store(email_id, '+FLAGS', '\\Seen'); the status it returns is dropped
Store ==
    /\ pc = "store"
    /\ \E st \in ImapOutcomes :
        /\ Allowed(st)
        /\ faults' = faults + Cost(st)
        /\ log' = Append(log, Ev("store", email_id, 0, st))
        /\ seen' = IF st = "OK" THEN [seen EXCEPT ![email_id] = TRUE] ELSE seen
        /\ stored' = IF st = "OK" THEN [stored EXCEPT ![email_id] = TRUE]
                     ELSE stored
        /\ clean' = IF st = "OK" THEN clean ELSE Spoil(email_id)
    /\ NextEmail
    /\ UNCHANGED << mail, email_id_list, ci, TELEGRAM_CHAT_IDS, inbox, sent>>
    /\ UNCHANGED nvars

\* finally: if mail: try: mail.logout() except Exception: log
Logout ==
    /\ pc = "logout"
    /\ mail
    /\ \E st \in {"OK", "ERROR"} :
        /\ Allowed(st)
        /\ faults' = faults + Cost(st)
        /\ log' = Append(log, Ev("logout", 0, 0, st))
    /\ mail' = FALSE
    /\ pc' = IF after = "continue" THEN "connect" ELSE "sleep"
    /\ UNCHANGED << after, email_id_list, todo, ci, TELEGRAM_CHAT_IDS, inbox,
                    seen, sent, stored, clean >>
    /\ UNCHANGED nvars

\* time.sleep(CHECK_INTERVAL_SECONDS) at the end of the loop body
Sleep ==
    /\ pc = "sleep"
    /\ log' = Append(log, Ev("sleep", 0, 0, "OK"))
    /\ pc' = "connect"
    /\ UNCHANGED << mail, after, email_id_list, todo, ci, TELEGRAM_CHAT_IDS,
                    inbox, seen, faults, sent, stored, clean >>
    /\ UNCHANGED nvars

\* the environment: a new message is delivered to the inbox.  The program
\* sees the inbox only through its searches, so a delivery is taken at the
\* point just before a search.
Arrive ==
    /\ pc = "search"
    /\ inbox < MaxMsgs
    /\ inbox' = inbox + 1
    /\ UNCHANGED << pc, mail, after, email_id_list, todo, ci,
                    TELEGRAM_CHAT_IDS, seen, faults, log, sent,
                    stored, clean >>
    /\ UNCHANGED nvars

Next ==
    \/ Connect
    \/ RetrySleep
    \/ Search
    \/ Fetch
    \/ Parse
    \/ Send
    \/ Store
    \/ Logout
    \/ Sleep
    \/ Arrive

Spec == Init /\ [][Next]_vars

\* the steps of run_bot itself: every one is a blocking call that returns or
\* fails, so the loop always takes its next step
Step ==
    \/ Connect
    \/ RetrySleep
    \/ Search
    \/ Fetch
    \/ Parse
    \/ Send
    \/ Store
    \/ Logout
    \/ Sleep

\* the environment: the failures do not end after MaxFaults of them.  Taken
\* between two cycles, and only while the delivery counters are small, so
\* that the counters stay bounded.
FaultsGoOn ==
    /\ pc = "connect"
    /\ faults = MaxFaults
    /\ \A m \in Msgs : \A i \in 1..Len(TELEGRAM_CHAT_IDS) : sent[m][i] <= 1
    /\ faults' = 0
    /\ UNCHANGED << pc, mail, after, email_id_list, todo, ci,
                    TELEGRAM_CHAT_IDS, inbox, seen, log, sent, stored,
                    clean >>
    /\ UNCHANGED nvars

LiveInit == Init /\ Len(TELEGRAM_CHAT_IDS) = 1

LiveNext ==
    \/ Connect
    \/ RetrySleep
    \/ Search
    \/ Fetch
    \/ Parse
    \/ Send
    \/ Store
    \/ Logout
    \/ Sleep
    \/ Arrive
    \/ FaultsGoOn

\* the loop under failures that may go on for ever
LiveSpec == LiveInit /\ [][LiveNext]_vars /\ WF_vars(Step)

-----------------------------------------------------------------------------
(* parse_email: the normalizer *)

\* Telegram's message size limit, "if len(message_text) > 4096"
TelegramLimit == 4096
\* "message_text[:4090]"
CutAt == 4090

\* longest parts list of a multipart message
MaxParts == 2
\* how far the payload sizes go on around the size at which the assembled
\* text crosses TelegramLimit
MaxSlack == 8

\* a run of n characters
Pad(n) == [i \in 1..n |-> "x"]

\* The fixed texts of the template.  The three Cyrillic words of the source
\* are written with as many Latin letters.
Title == << "*", "*", "N", "o", "v", "o", "e", " ", "p", "i", "s", "'", "m",
            "o", "*", "*", "\n", "\n" >>
FromLabel == << "*", "*", "O", "t", ":", "*", "*", " " >>
SubjectLabel == << "*", "*", "T", "e", "m", "a", ":", "*", "*", " " >>
\* the backquote, which a TLA+ string cannot hold
BQ == "^"
\* the marker that opens and closes the body block
Fence == << BQ, BQ, BQ >>
\* the five characters appended to a cut text: newline, three dots, backquote
Ellipsis == << "\n", ".", ".", ".", BQ >>

\* A header as decode_header(...)[0] gives it: kind "str" is a header that
\* needs no decoding, "bytes" an encoded word that decodes, "bad" an encoded
\* word whose .decode(encoding) raises, "missing" an absent header, for
\* which decode_header(None) raises.
Header(kind, text) == [kind |-> kind, text |-> text]

SubjectChoices ==
    { Header("str", << "H", "i" >>),
      Header("bytes", << >>),
      Header("bad", << "?" >>),
      Header("missing", << >>) }

SenderChoices ==
    { Header("str", << "a", "@", "x" >>),
      Header("bytes", Pad(TelegramLimit)),
      Header("bad", << "?" >>) }

\* One part met by msg.walk(): its content type, whether
\* get_payload(decode=True).decode(charset, errors=ignore) returns (known
\* charset, payload present) and the text it returns.
Part(ctype, ok, text) == [ctype |-> ctype, ok |-> ok, text |-> text]

PlainChoices ==
    { Part("text/plain", TRUE, << >>),
      Part("text/plain", TRUE, << " ", "\n" >>),
      Part("text/plain", TRUE, << "p" >>),
      Part("text/plain", TRUE, << " ", "q", " ", "q", "\n" >>),
      Part("text/plain", FALSE, << "p" >>),
      Part("text/plain", TRUE, Pad(TelegramLimit)) }

\* an HTML text is a sequence of characters and tags, a tag being one item
Tags == { "<p>", "</p>" }

HtmlChoices ==
    { Part("text/html", TRUE, << >>),
      Part("text/html", TRUE, << "<p>", "h", "</p>" >>),
      Part("text/html", FALSE, << "h" >>),
      Part("text/html", TRUE, << "<p>" >> \o Pad(TelegramLimit)) }

OtherChoices == { Part("image/png", TRUE, << "i" >>) }

PartChoices == PlainChoices \cup HtmlChoices \cup OtherChoices

\* the payload sizes around the one at which a message with the headers
\* "a@x" and "Hi" reaches TelegramLimit
EdgeSizes == { TelegramLimit - 50 - (MaxSlack \div 2) + d : d \in 0..MaxSlack }

\* payloads of a message that is not multipart, of any content type
SingleChoices ==
    PartChoices \cup { Part("text/plain", TRUE, Pad(n)) : n \in EdgeSizes }

\* msg.walk() of a multipart message yields the message itself first
Container == Part("multipart/mixed", FALSE, << >>)

Messages ==
    { [Subject |-> s, From |-> f, is_multipart |-> FALSE, walk |-> << p >>] :
          s \in SubjectChoices, f \in SenderChoices, p \in SingleChoices }
    \cup
    { [Subject |-> s, From |-> f, is_multipart |-> TRUE,
       walk |-> << Container >> \o ps] :
          s \in SubjectChoices, f \in SenderChoices,
          ps \in UNION { [1..n -> PartChoices] : n \in 1..MaxParts } }

\* html2text.HTML2Text().handle(html): the text without its tags, ended by
\* a blank line
HtmlToText(html) ==
    SelectSeq(html, LAMBDA c : c \notin Tags) \o << "\n", "\n" >>

\* the decode inside try/except: the text, or the exception
Decodes(p) == p.ok

\* "if body_plain: ... elif body_html: ..." taken the other way round
FinalBodyHtmlFirst(plain, html) ==
    IF html # << >> THEN HtmlToText(html)
    ELSE IF plain # << >> THEN plain
    ELSE << >>

\* "if body_plain: final_body = body_plain elif body_html: ..."
FinalBody(plain, html) ==
    IF plain # << >> THEN plain
    ELSE IF html # << >> THEN HtmlToText(html)
    ELSE << >>

\* the four "message_text +=" lines
Assembled(from, subj, body) ==
    Title \o FromLabel \o from \o << "\n" >>
          \o SubjectLabel \o subj \o << "\n", "\n" >>
          \o Fence \o Strip(body) \o Fence

\* the cut taken at the limit itself
TruncatedAtLimit(text) == SubSeq(text, 1, TelegramLimit) \o Ellipsis

\* message_text[:4090] + the five characters
Truncated(text) == SubSeq(text, 1, CutAt) \o Ellipsis

Raises(h) == h.kind \in {"bad", "missing"}

NormInit ==
    /\ PollerInit
    /\ TELEGRAM_CHAT_IDS = << << >> >>
    /\ npc = "headers"
    /\ msg \in Messages
    /\ subject = << >>
    /\ sender = << >>
    /\ part = 0
    /\ body_plain = << >>
    /\ body_html = << >>
    /\ final_body = << >>
    /\ message_text = << >>
    /\ returned = << >>

\* lines 74-82: an exception of decode_header or .decode leaves parse_email
DecodeHeaders ==
    /\ npc = "headers"
    /\ IF Raises(msg.Subject) \/ Raises(msg.From)
       THEN /\ npc' = "raised"
            /\ UNCHANGED << subject, sender, part >>
       ELSE /\ subject' = msg.Subject.text
            /\ sender' = msg.From.text
            /\ part' = 1
            /\ npc' = IF msg.is_multipart THEN "walk" ELSE "single"
    /\ UNCHANGED << msg, body_plain, body_html, final_body, message_text,
                    returned >>
    /\ UNCHANGED pvars

\* the walk without "and not body_plain" / "and not body_html": every part
\* that decodes replaces the text kept so far
WalkPartLastWins ==
    /\ npc = "walk"
    /\ LET p == msg.walk[part] IN
         /\ body_plain' =
               IF p.ctype = "text/plain" /\ Decodes(p)
               THEN p.text ELSE body_plain
         /\ body_html' =
               IF p.ctype = "text/html" /\ Decodes(p)
               THEN p.text ELSE body_html
    /\ IF part = Len(msg.walk)
       THEN npc' = "choose" /\ part' = part
       ELSE npc' = "walk" /\ part' = part + 1
    /\ UNCHANGED << msg, subject, sender, final_body, message_text, returned >>
    /\ UNCHANGED pvars

\* one pass of "for part in msg.walk()"
WalkPart ==
    /\ npc = "walk"
    /\ LET p == msg.walk[part] IN
         /\ body_plain' =
               IF p.ctype = "text/plain" /\ body_plain = << >> /\ Decodes(p)
               THEN p.text ELSE body_plain
         /\ body_html' =
               IF /\ ~(p.ctype = "text/plain" /\ body_plain = << >>)
                  /\ p.ctype = "text/html" /\ body_html = << >> /\ Decodes(p)
               THEN p.text ELSE body_html
    /\ IF part = Len(msg.walk)
       THEN npc' = "choose" /\ part' = part
       ELSE npc' = "walk" /\ part' = part + 1
    /\ UNCHANGED << msg, subject, sender, final_body, message_text, returned >>
    /\ UNCHANGED pvars

\* the else branch of "if msg.is_multipart()"
SinglePayload ==
    /\ npc = "single"
    /\ body_plain' = IF Decodes(msg.walk[1]) THEN msg.walk[1].text ELSE << >>
    /\ npc' = "choose"
    /\ UNCHANGED << msg, subject, sender, part, body_html, final_body,
                    message_text, returned >>
    /\ UNCHANGED pvars

\* lines 111-117
ChooseBody ==
    /\ npc = "choose"
    /\ final_body' = FinalBody(body_plain, body_html)
    /\ npc' = "assemble"
    /\ UNCHANGED << msg, subject, sender, part, body_plain, body_html,
                    message_text, returned >>
    /\ UNCHANGED pvars

\* lines 120-123
Assemble ==
    /\ npc = "assemble"
    /\ message_text' = Assembled(sender, subject, final_body)
    /\ npc' = "return"
    /\ UNCHANGED << msg, subject, sender, part, body_plain, body_html,
                    final_body, returned >>
    /\ UNCHANGED pvars

\* lines 125-128
Return ==
    /\ npc = "return"
    /\ returned' = IF Len(message_text) > TelegramLimit
                   THEN Truncated(message_text) ELSE message_text
    /\ npc' = "done"
    /\ UNCHANGED << msg, subject, sender, part, body_plain, body_html,
                    final_body, message_text >>
    /\ UNCHANGED pvars

NormNext ==
    \/ DecodeHeaders
    \/ WalkPart
    \/ SinglePayload
    \/ ChooseBody
    \/ Assemble
    \/ Return

NormSpec == NormInit /\ [][NormNext]_vars

-----------------------------------------------------------------------------
(* Properties of the polling loop, stated over the calls of one cycle *)

Pos == 1..Len(log)

Is(k, op, id) == log[k].op = op /\ log[k].id = id

\* an entry of the recipient list that is empty or whitespace-only
Blank(chat_id) == Strip(chat_id) = <<>>

NonBlankEntries == { i \in 1..Len(TELEGRAM_CHAT_IDS) : ~Blank(TELEGRAM_CHAT_IDS[i]) }

\* the entries to which message id was sent, in the order of the calls
SendsOf(id) ==
    LET ev == SelectSeq(log, LAMBDA e : e.op = "send" /\ e.id = id)
    IN  [k \in 1..Len(ev) |-> ev[k].to]

\* C1: markRead(id) is issued only after the same cycle fetched id with an OK
\* status, formatted it, and sendAll for it has returned; a message whose
\* fetch returned non-OK, or whose fetch or format raised, is not marked read
\* in that cycle.
C1_MarkOnlyAfterSend ==
    /\ \A k \in Pos :
         log[k].op = "store" =>
           \E r \in 1..(k - 1) :
              /\ log[r] = Ev("sent_all", log[k].id, 0, "OK")
              /\ \E p \in 1..(r - 1) :
                    /\ log[p] = Ev("parse", log[k].id, 0, "OK")
                    /\ \E f \in 1..(p - 1) :
                          log[f] = Ev("fetch", log[k].id, 0, "OK")
                    /\ \A j \in Pos :
                          Is(j, "send", log[k].id) => p < j /\ j < r
    /\ \A k \in Pos :
         (log[k].op \in {"fetch", "parse"} /\ log[k].st # "OK") =>
           \A j \in Pos : ~Is(j, "store", log[k].id)

\* a store was issued in a cycle where another message failed to be fetched
C1_Witness ==
    \E k, j \in Pos :
       /\ log[k].op = "store"
       /\ log[j].op = "fetch" /\ log[j].st # "OK"

\* C2: when the search for unread messages fails, the cycle makes no fetch,
\* send or store call, disconnects, and sleeps before the next connect.
C2_ListFailureSleeps ==
    \A k \in Pos :
       (log[k].op = "search" /\ log[k].st # "OK") =>
          /\ \A j \in Pos : log[j].op \notin {"fetch", "parse", "send", "store"}
          /\ pc = "connect" =>
                /\ Len(log) = k + 2
                /\ log[k + 1].op = "logout"
                /\ log[k + 2].op = "sleep"

\* the entries that are not the empty string, in list order
NonEmptyEntries ==
    Ascending({ i \in 1..Len(TELEGRAM_CHAT_IDS) : TELEGRAM_CHAT_IDS[i] # <<>> })

\* the events one message produces when nothing fails
MsgEvents(id) ==
    << Ev("fetch", id, 0, "OK"), Ev("parse", id, 0, "OK") >>
    \o [k \in 1..Len(NonEmptyEntries) |-> Ev("send", id, NonEmptyEntries[k], "OK")]
    \o << Ev("sent_all", id, 0, "OK"), Ev("store", id, 0, "OK") >>

\* the events of a whole batch, the last listed identifier first
RECURSIVE BatchEvents(_)
BatchEvents(ids) ==
    IF ids = <<>> THEN <<>>
    ELSE MsgEvents(ids[Len(ids)]) \o BatchEvents(SubSeq(ids, 1, Len(ids) - 1))

IsPrefix(a, b) == Len(a) <= Len(b) /\ a = SubSeq(b, 1, Len(a))

CycleWork ==
    SelectSeq(log, LAMBDA e : e.op \in {"fetch", "parse", "send", "sent_all", "store"})

Listed == \E k \in Pos : log[k] = Ev("search", 0, 0, "OK")

NothingFailed == \A k \in Pos : log[k].st = "OK"

\* C3: in a cycle with no failing operation the listed messages are fetched
\* and dispatched one at a time in the reverse of the listed order, each one
\* marked read after its own dispatch and before the next fetch.
C3_NewestFirst ==
    (Listed /\ NothingFailed) =>
       /\ IsPrefix(CycleWork, BatchEvents(email_id_list))
       /\ pc \in {"logout", "sleep", "connect"} =>
             CycleWork = BatchEvents(email_id_list)

\* a clean cycle that processed at least two messages has finished
C3_Witness ==
    /\ Listed /\ NothingFailed
    /\ pc = "sleep"
    /\ Len(email_id_list) >= 2
    /\ \E i \in 1..Len(TELEGRAM_CHAT_IDS) : ~Skipped(TELEGRAM_CHAT_IDS[i])

\* C4: one sendAll call sends only to non-blank entries, exactly once to
\* each of them, in list order, whatever the earlier sends did.
C4_OnlyNonBlank ==
    (\E i \in 1..Len(TELEGRAM_CHAT_IDS) : Blank(TELEGRAM_CHAT_IDS[i])) =>
       \A r \in Pos :
          log[r].op = "sent_all" =>
             SendsOf(log[r].id) = Ascending(NonBlankEntries)

\* C5: when the send to one recipient fails, every other non-blank recipient
\* still gets a send attempt for that message, and the message is still
\* marked read in the same cycle.
C5_SendFailureIsolated ==
    \A j \in Pos :
       (log[j].op = "send" /\ log[j].st # "OK") =>
          LET id == log[j].id
              closed == { r \in Pos : r > j /\ Is(r, "sent_all", id) }
          IN  IF closed = {}
              THEN pc = "send" /\ email_id = id /\ ci > log[j].to
              ELSE \A r \in closed :
                     /\ \A i \in NonBlankEntries :
                           Cardinality({ x \in Pos : Is(x, "send", id)
                                                     /\ log[x].to = i }) = 1
                     /\ IF r = Len(log)
                        THEN pc = "store" /\ email_id = id
                        ELSE /\ Is(r + 1, "store", id)
                             /\ log[r + 1].st = "OK" => seen[id]

\* the first of two non-blank recipients failed, the second was sent to, and
\* the message was marked read
C5_Witness ==
    \E j, x, k \in Pos :
       /\ j < x /\ x < k
       /\ log[j].op = "send" /\ log[j].st # "OK"
       /\ Is(x, "send", log[j].id) /\ log[x].st = "OK" /\ log[x].to > log[j].to
       /\ log[k] = Ev("store", log[j].id, 0, "OK")

\* C6: once a store for a message has succeeded, no later search returns it
\* and it is never fetched or sent again; a message none of whose
\* operations failed has been delivered exactly once to every entry that
\* is sent to.
C6_NoRedelivery ==
    [][\A m \in Msgs :
         /\ stored[m] =>
               /\ (log' # log => log'[Len(log')].id # m)
               /\ sent'[m] = sent[m]
               /\ (email_id_list' # email_id_list =>
                      \A i \in 1..Len(email_id_list') : email_id_list'[i] # m)
         /\ (stored'[m] /\ clean'[m]) =>
               \A i \in 1..Len(TELEGRAM_CHAT_IDS) :
                  sent'[m][i] = IF Skipped(TELEGRAM_CHAT_IDS[i]) THEN 0 ELSE 1
      ]_vars

\* a later cycle listed the inbox, found another message, and left alone the
\* message that an earlier cycle had delivered and marked read
C6_Witness ==
    \E m \in Msgs :
       /\ stored[m] /\ clean[m]
       /\ Listed
       /\ email_id_list # <<>>
       /\ \A k \in Pos : log[k].id # m
       /\ \E i \in 1..Len(TELEGRAM_CHAT_IDS) : sent[m][i] = 1

\* C10: a session abort raised by search, fetch or store ends the mailbox
\* work of the cycle: no further search, fetch or store is issued, the next
\* call is the logout, then the sleep.
C10_AbortEndsCycle ==
    \A k \in Pos :
       log[k].st = "ABORT" =>
          /\ \A j \in Pos : j > k => log[j].op \in {"logout", "sleep"}
          /\ k = Len(log) => pc = "logout"

-----------------------------------------------------------------------------
(* Properties of parse_email *)

Finished == npc = "done"

\* the last n characters of a text
Tail_(text, n) == SubSeq(text, Len(text) - n + 1, Len(text))

\* C7: when the assembled text exceeds 4096 characters, the returned text
\* has exactly 4096 characters and ends with the block-closing marker.
C7_CutToLimitWithFence ==
    (Finished /\ Len(message_text) > TelegramLimit) =>
       /\ Len(returned) = TelegramLimit
       /\ Tail_(returned, Len(Fence)) = Fence

\* C8: the returned text never has more than 4096 characters.
C8_WithinLimit ==
    Finished => Len(returned) <= TelegramLimit

\* an assembled text one character over the limit was returned
C8_Witness ==
    /\ Finished
    /\ Len(message_text) = TelegramLimit + 1
    /\ returned # message_text

PartsOf(ctype) ==
    { i \in 1..Len(msg.walk) : msg.walk[i].ctype = ctype }

\* the parts of a content type that decode to a non-empty text
UsableOf(ctype) ==
    { i \in PartsOf(ctype) : msg.walk[i].ok /\ msg.walk[i].text # << >> }

First(S) == CHOOSE i \in S : \A j \in S : i <= j

BothKinds ==
    /\ msg.is_multipart
    /\ PartsOf("text/plain") # {}
    /\ PartsOf("text/html") # {}

\* C9 as stated: a multipart message with a plain-text and an HTML part has
\* a body taken from a plain-text part (empty when that part is empty or
\* does not decode), never from the HTML part.
C9_PlainOnly ==
    (Finished /\ BothKinds) =>
       final_body \in { msg.walk[i].text : i \in PartsOf("text/plain") }
                      \cup { << >> }

\* C9 as amended: the body is the first plain-text part that decodes to a
\* non-empty text; when there is none, it is the conversion of the first
\* HTML part that decodes to a non-empty text, or empty.
C9_PlainUnlessEmpty ==
    (Finished /\ BothKinds) =>
       /\ final_body =
             IF UsableOf("text/plain") # {}
             THEN msg.walk[First(UsableOf("text/plain"))].text
             ELSE IF UsableOf("text/html") # {}
             THEN HtmlToText(msg.walk[First(UsableOf("text/html"))].text)
             ELSE << >>
       /\ returned =
             IF Len(Assembled(sender, subject, final_body)) > TelegramLimit
             THEN SubSeq(Assembled(sender, subject, final_body), 1, CutAt)
                  \o Ellipsis
             ELSE Assembled(sender, subject, final_body)

\* the HTML part came first and has text, and the body is the plain text
C9_Witness ==
    /\ Finished /\ BothKinds
    /\ UsableOf("text/plain") # {} /\ UsableOf("text/html") # {}
    /\ First(UsableOf("text/html")) < First(UsableOf("text/plain"))
    /\ final_body = msg.walk[First(UsableOf("text/plain"))].text

-----------------------------------------------------------------------------
(* Further properties of the polling loop *)

Sleeping == pc \in {"sleep", "retry_sleep"}

\* C11: whatever failures occur, the loop never stops: it always has a next
\* step, it sleeps again and again, and it connects again and again.
C11_NeverStopsAlwaysSleeps ==
    /\ [](ENABLED Step)
    /\ []<>Sleeping
    /\ []<>(pc = "connect")

Logouts == { k \in Pos : log[k].op = "logout" }

Connected == log # << >> /\ log[1] = Ev("connect", 0, 0, "OK")

\* C12: a cycle whose connect succeeded attempts the logout exactly once
\* before the next connect, whatever failed in it; a failing logout does not
\* stop the loop; no connect is issued while a session is still open.
C12_OneLogoutPerSession ==
    /\ Cardinality(Logouts) <= 1
    /\ Connected =>
          /\ mail <=> Logouts = {}
          /\ pc \in {"sleep", "connect"} => Cardinality(Logouts) = 1
    /\ ~Connected => Logouts = {}
    /\ pc = "connect" => ~mail
    /\ \A k \in Logouts : k = Len(log) => pc \in {"sleep", "connect"}

\* a cycle in which a mailbox call failed and the logout failed too is over
C12_Witness ==
    /\ pc = "connect"
    /\ Connected
    /\ \E k \in Pos : log[k].op \in {"search", "fetch", "store"}
                      /\ log[k].st # "OK"
    /\ \E k \in Logouts : log[k].st = "ERROR"

\* C13: a decode error on the sender or subject header does not stop
\* parse_email: it returns a text in which the undecodable field is empty.
C13_HeaderErrorSubstituted ==
    (npc # "headers" /\ (msg.Subject.kind = "bad" \/ msg.From.kind = "bad")) =>
       /\ npc # "raised"
       /\ Finished =>
             returned =
                LET from == IF msg.From.kind = "bad" THEN << >> ELSE sender
                    subj == IF msg.Subject.kind = "bad" THEN << >> ELSE subject
                    text == Assembled(from, subj, final_body)
                IN  IF Len(text) > TelegramLimit
                    THEN SubSeq(text, 1, CutAt) \o Ellipsis ELSE text

ConnectFailed == log # << >> /\ log[1] = Ev("connect", 0, 0, "ERROR")

\* C14: when the connect fails, the cycle makes no mailbox call and no send,
\* sleeps exactly once, and the next cycle connects again.
C14_ConnectFailureSleepsOnce ==
    ConnectFailed =>
       /\ ~mail
       /\ \/ log = << Ev("connect", 0, 0, "ERROR") >> /\ pc = "retry_sleep"
          \/ /\ log = << Ev("connect", 0, 0, "ERROR"), Ev("sleep", 0, 0, "OK") >>
             /\ pc = "connect"

\* the cycle of a failed connect is over and the loop is back at connect
C14_Witness ==
    /\ ConnectFailed
    /\ pc = "connect"
    /\ Len(log) = 2

BatchOver == Listed /\ pc \in {"logout", "sleep", "connect"}

\* C15: a failure on one message does not end the batch: every listed
\* identifier gets a fetch, and every message whose fetch and parse succeed
\* is dispatched and passed to store, which marks it read when it succeeds.
C15_FailureKeepsBatch ==
    BatchOver =>
       \A i \in 1..Len(email_id_list) :
          LET id == email_id_list[i] IN
          /\ Cardinality({ k \in Pos : Is(k, "fetch", id) }) = 1
          /\ (\E f, p \in Pos : /\ log[f] = Ev("fetch", id, 0, "OK")
                                /\ log[p] = Ev("parse", id, 0, "OK")) =>
                /\ \E r \in Pos : Is(r, "sent_all", id)
                /\ \E k \in Pos : Is(k, "store", id)
                /\ \A k \in Pos :
                      log[k] = Ev("store", id, 0, "OK") => seen[id] /\ stored[id]

\* an operation on one message failed, and a message processed after it was
\* delivered and marked read
C15_Witness ==
    /\ BatchOver
    /\ \E k, j \in Pos :
          /\ k < j
          /\ log[k].id # 0 /\ log[k].st # "OK"
          /\ log[j].op = "store" /\ log[j].st = "OK" /\ log[j].id # log[k].id

\* C16: a message whose fetch or normalization failed in a cycle stays
\* unread, so that the next successful search returns it again and its
\* notification is delayed, not lost.
C16_FailedStaysUnread ==
    \A k \in Pos :
       (log[k].op \in {"fetch", "parse"} /\ log[k].st # "OK") =>
          /\ ~seen[log[k].id]
          /\ \E i \in 1..Len(Unseen) : Unseen[i] = log[k].id

\* no send of a message has ever succeeded
NoneDelivered(m) ==
    \A i \in 1..Len(TELEGRAM_CHAT_IDS) : sent[m][i] = 0

\* the message is waiting in, or at the head of, the batch being processed
InTodo(m) == \E i \in 1..Len(todo) : todo[i] = m

\* the return of send_to_telegram is followed at once by the store of the
\* same message, whatever the sends did
StoreFollowsDispatch ==
    \A r \in Pos :
       log[r].op = "sent_all" =>
          IF r = Len(log)
          THEN pc = "store" /\ email_id = log[r].id
          ELSE Is(r + 1, "store", log[r].id)

\* a read message that is not in the batch and reached nobody stays read,
\* is not listed, fetched or sent again, and still has reached nobody
StaysUndelivered(m) ==
    (seen[m] /\ ~InTodo(m) /\ NoneDelivered(m)) =>
       /\ seen'[m]
       /\ ~InTodo(m)'
       /\ NoneDelivered(m)'
       /\ (log' # log => log'[Len(log')].id # m)

-----------------------------------------------------------------------------
(* Further properties of parse_email *)

\* the text the walk keeps when the first part of a content type is the
\* one taken, whatever it decodes to
FirstPartText(ctype) ==
    IF PartsOf(ctype) = {} THEN << >>
    ELSE IF msg.walk[First(PartsOf(ctype))].ok
    THEN msg.walk[First(PartsOf(ctype))].text
    ELSE << >>

\* the text of the first part of a content type that decodes to a
\* non-empty text
FirstUsableText(ctype) ==
    IF UsableOf(ctype) = {} THEN << >>
    ELSE msg.walk[First(UsableOf(ctype))].text

\* C17 as stated: in the walk of a multipart message the first part of a
\* content type wins and every later part of that type is ignored, also
\* when the first one is empty or does not decode.
C17_FirstPartWins ==
    (Finished /\ msg.is_multipart) =>
       /\ body_plain = FirstPartText("text/plain")
       /\ body_html = FirstPartText("text/html")

\* C17 as amended: the first part of a content type that decodes to a
\* non-empty text wins and every later part of that type is ignored; a
\* first part that is empty or does not decode is passed over for the next
\* part of its type.
C17_FirstUsablePartWins ==
    (Finished /\ msg.is_multipart) =>
       /\ body_plain = FirstUsableText("text/plain")
       /\ body_html = FirstUsableText("text/html")

\* two plain-text parts with different non-empty texts were walked and the
\* text kept is the one of the first
C17_Witness ==
    /\ Finished /\ msg.is_multipart
    /\ \E i, j \in UsableOf("text/plain") :
          /\ i < j
          /\ msg.walk[i].text # msg.walk[j].text
          /\ body_plain = msg.walk[i].text
          /\ final_body = msg.walk[i].text

====
